---------------------------- MODULE Spec2Model ----------------------------
(***************************************************************************)
(* Model of the JobSpy command-line front-end: src/src/cli/scrape.py (the  *)
(* interactive session and the result exporter) and src/utils.py (the HTML *)
(* report generator).                                                      *)
(*                                                                         *)
(* Text is modelled as a sequence of one-character strings.  The literal   *)
(* text of an f-string or of the HTML template is kept in multi-character  *)
(* chunks, so that a character coming from a record field (always a        *)
(* one-character element) is never mistaken for the program's own markup.  *)
(***************************************************************************)
EXTENDS Integers, Sequences, FiniteSets, TLC

VARIABLES
    pc,              \* position of the run inside scrape()
    stdin,           \* the lines the user will type, one entry per prompt
    site_name,       \* inputs["site_name"]
    search_term,     \* inputs["search_term"]
    results_wanted,  \* inputs["results_wanted"]
    hours_old,       \* inputs["hours_old"]
    country,         \* inputs["location"] and inputs["country_indeed"]
    warnings,        \* number of warnings printed by the result-count step
    errors,          \* invalid platform tokens reported on the console
    today,           \* the system clock's calendar day
    dir_date,        \* the date formatted into the directory name
    file_date,       \* the date formatted into the file stem
    dirs,            \* directories created by this run
    jobs,            \* the DataFrame returned by scrape_jobs
    csv_file,        \* content written to <stem>.csv
    html_file,       \* content written to <stem>.html
    effects          \* the run's external effects, in order

vars == <<pc, stdin, site_name, search_term, results_wanted, hours_old, country,
          warnings, errors, today, dir_date, file_date, dirs, jobs, csv_file,
          html_file, effects>>

inputVars == <<site_name, search_term, results_wanted, hours_old, country,
               warnings, errors>>

pathVars == <<dir_date, file_date, dirs>>

(***************************************************************************)
(* Bounds of the model.                                                    *)
(***************************************************************************)
MaxLen == 3        \* longest description drawn for the escaping checks
MaxRows == 3       \* longest result set drawn for the report checks
MaxLabel == 2      \* largest DataFrame index label
MaxDigits == 4     \* longest text typed at the result-count prompt
MaxDay == 1        \* number of midnights that may pass during a run
MaxCsvRows == 2    \* longest result set drawn for the CSV checks

(***************************************************************************)
(* Text helpers.                                                           *)
(***************************************************************************)
RECURSIVE Flatten(_)
Flatten(ss) == IF ss = <<>> THEN <<>> ELSE Head(ss) \o Flatten(Tail(ss))

\* every sequence over alphabet A of length at most n
StrUpTo(A, n) == UNION {[1..k -> A] : k \in 0..n}

\* the positions of s that hold tok, in increasing order
Positions(s, tok) == SelectSeq([i \in 1..Len(s) |-> i], LAMBDA i : s[i] = tok)

\* str.replace(old, new): leftmost, non-overlapping occurrences
RECURSIVE Replace(_, _, _)
Replace(s, old, new) ==
    IF Len(s) < Len(old) THEN s
    ELSE IF SubSeq(s, 1, Len(old)) = old
         THEN new \o Replace(SubSeq(s, Len(old) + 1, Len(s)), old, new)
         ELSE <<Head(s)>> \o Replace(Tail(s), old, new)

LowerCase == <<"a","b","c","d","e","f","g","h","i","j","k","l","m",
               "n","o","p","q","r","s","t","u","v","w","x","y","z">>
UpperCase == <<"A","B","C","D","E","F","G","H","I","J","K","L","M",
               "N","O","P","Q","R","S","T","U","V","W","X","Y","Z">>

\* str.upper() and str.lower(), one character at a time
UpperChar(c) ==
    IF \E i \in 1..26 : LowerCase[i] = c
    THEN UpperCase[CHOOSE i \in 1..26 : LowerCase[i] = c] ELSE c
LowerChar(c) ==
    IF \E i \in 1..26 : UpperCase[i] = c
    THEN LowerCase[CHOOSE i \in 1..26 : UpperCase[i] = c] ELSE c
Upper(s) == [i \in 1..Len(s) |-> UpperChar(s[i])]

Whitespace == {" ", "\t", "\n"}

\* str.strip()
RECURSIVE LStrip(_)
LStrip(s) == IF s # <<>> /\ Head(s) \in Whitespace THEN LStrip(Tail(s)) ELSE s
RECURSIVE RStrip(_)
RStrip(s) ==
    IF s # <<>> /\ s[Len(s)] \in Whitespace
    THEN RStrip(SubSeq(s, 1, Len(s) - 1)) ELSE s
Strip(s) == RStrip(LStrip(s))

\* str.split(sep) for a one-character separator: always at least one piece
RECURSIVE Split(_, _)
Split(s, sep) ==
    IF \A i \in 1..Len(s) : s[i] # sep THEN <<s>>
    ELSE LET p == CHOOSE i \in 1..Len(s) :
                      s[i] = sep /\ \A j \in 1..(i - 1) : s[j] # sep
         IN <<SubSeq(s, 1, p - 1)>> \o Split(SubSeq(s, p + 1, Len(s)), sep)

(***************************************************************************)
(* DataFrame cells.  A cell is a text value, a number, a boolean or a      *)
(* missing value (NaN); v holds the text Python's str() gives for it,      *)
(* except for NaN, whose str() is computed by PyStr.                       *)
(***************************************************************************)
S(v) == [t |-> "str", v |-> v]
Num(v) == [t |-> "num", v |-> v]
Bool(v) == [t |-> "bool", v |-> v]
NaN == [t |-> "nan", v |-> <<>>]

\* str(value)
PyStr(x) == IF x.t = "nan" THEN <<"n", "a", "n">> ELSE x.v


(***************************************************************************)
(* src/utils.py: the report generator.                                     *)
(***************************************************************************)

\* format_content: str(row).replace("<", "&lt;").replace(">", "&gt;")
format_content(row) ==
    Replace(Replace(PyStr(row), <<"<">>, <<"&", "l", "t", ";">>),
            <<">">>, <<"&", "g", "t", ";">>)

\* The chunks of literal text in format_data's f-strings.
ROW_OPEN == "\n<tr>\n<td>"
CELL_SEP == "</td>\n<td>"
BUTTON_OPEN == "</td>\n<td><button class=\"view-btn\" onclick=\"showModal("
ROW_CLOSE == ")\">View Description</button></td>\n</tr>\n"
A_OPEN == "<a href=\""
A_ATTRS == "\" target=\"_blank\" rel=\"noopener noreferrer\">"
A_CLOSE == "</a>"

\* the company cell of format_data (lines 173-177)
company_html(row) ==
    LET company_url == PyStr(row.company_url)
    IN IF company_url \in {<<"n", "a", "n">>, <<"-">>}
       THEN <<"-">>
       ELSE <<A_OPEN>> \o company_url \o <<A_ATTRS>>
            \o format_content(row.company) \o <<A_CLOSE>>

\* format_data(idx, row): one <tr> fragment
format_data(idx, row) ==
    <<ROW_OPEN, ToString(idx + 1), CELL_SEP>>
    \o format_content(row.title) \o <<CELL_SEP>>
    \o company_html(row) \o <<CELL_SEP>>
    \o format_content(row.location) \o <<CELL_SEP>>
    \o format_content(row.date_posted) \o <<CELL_SEP>>
    \o format_content(row.emails)
    \o <<BUTTON_OPEN, ToString(idx), ROW_CLOSE>>

\* The chunks of literal text in generate_descriptions' f-string.
\* The parser of this module does not accept the backtick character inside
\* a string, so the character is written BACKTICK; it is the only field
\* character that is not a one-character string.  The three chunks below
\* are ': {title: ' + backtick, backtick + ', desc: ' + backtick and
\* backtick + '},' + newline.
BACKTICK == "[backtick]"
ENTRY_OPEN == ": {title: [backtick]"
ENTRY_MID == "[backtick], desc: [backtick]"
ENTRY_CLOSE == "[backtick]},\n"

\* the three chained replace() calls of lines 194 and 195
js_escape(text) ==
    Replace(Replace(Replace(text, <<"\\">>, <<"\\", "\\">>),
                    <<BACKTICK>>, <<"\\", BACKTICK>>),
            <<"$", "{">>, <<"\\", "$", "{">>)

\* the same calls with the backtick escaped before the backslash
js_escape_backtick_first(text) ==
    Replace(Replace(Replace(text, <<BACKTICK>>, <<"\\", BACKTICK>>),
                    <<"\\">>, <<"\\", "\\">>),
            <<"$", "{">>, <<"\\", "$", "{">>)

\* generate_descriptions with the wrong escaping order
generate_descriptions_backtick_first(idx, row) ==
    <<ToString(idx), ENTRY_OPEN>> \o js_escape_backtick_first(PyStr(row.title))
    \o <<ENTRY_MID>> \o js_escape_backtick_first(PyStr(row.description))
    \o <<ENTRY_CLOSE>>

\* generate_descriptions(idx, row): one entry of the JavaScript map
generate_descriptions(idx, row) ==
    <<ToString(idx), ENTRY_OPEN>> \o js_escape(PyStr(row.title))
    \o <<ENTRY_MID>> \o js_escape(PyStr(row.description))
    \o <<ENTRY_CLOSE>>

\* get_html_template(): the skeleton, its doubled braces already read as
\* single braces, with its four replacement fields
TOTAL_LEADS == "<p><strong>Total Leads: "
TBODY_OPEN == "<table id=\"jobsTable\"><thead>...</thead><tbody>"
TBODY_CLOSE == "</tbody></table>"
SCRIPT_OPEN == "<script>"
SCRIPT_CLOSE == "</script>"
MAP_OPEN == "const descriptions = {"
MAP_CLOSE == "};"
SHOW_MODAL == "function showModal(id) {...}"
CLOSE_MODAL == "function closeModal() {...}"
ON_CLICK == "window.onclick = function(event) {...}"
ON_ESCAPE == "document.addEventListener('keydown', ... 'Escape' ...);"
get_html_template ==
    <<"<!DOCTYPE html><html><head>...<style>... tr:hover td {...} ...</style></head>",
      "<body><h1>Search Query: ", "{3}", "</h1>",
      TOTAL_LEADS, "{0}", "</strong></p>",
      TBODY_OPEN, "{1}", TBODY_CLOSE,
      "<div id=\"modal\" class=\"modal\">...</div>",
      SCRIPT_OPEN, MAP_OPEN, "{2}", MAP_CLOSE,
      SHOW_MODAL, CLOSE_MODAL, ON_CLICK, ON_ESCAPE,
      SCRIPT_CLOSE, "</body></html>">>

\* str.format(*args): every replacement field "{k}" becomes args[k+1]
Format(template, args) ==
    Flatten([i \in 1..Len(template) |->
        CASE template[i] = "{0}" -> args[1]
          [] template[i] = "{1}" -> args[2]
          [] template[i] = "{2}" -> args[3]
          [] template[i] = "{3}" -> args[4]
          [] OTHER -> <<template[i]>>])

\* the loop of generate_html_content over enumerate(df.iterrows())
RECURSIVE Rows(_, _)
Rows(df, n) ==
    IF n = 0 THEN <<>> ELSE Rows(df, n - 1) \o format_data(n - 1, df[n])
RECURSIVE Descriptions(_, _)
Descriptions(df, n) ==
    IF n = 0 THEN <<>>
    ELSE Descriptions(df, n - 1) \o generate_descriptions(n - 1, df[n])

\* the loop written as "for i, row in df.iterrows()": i is the index label
RECURSIVE RowsByLabel(_, _)
RowsByLabel(df, n) ==
    IF n = 0 THEN <<>>
    ELSE RowsByLabel(df, n - 1) \o format_data(df[n].label, df[n])
RECURSIVE DescriptionsByLabel(_, _)
DescriptionsByLabel(df, n) ==
    IF n = 0 THEN <<>>
    ELSE DescriptionsByLabel(df, n - 1)
         \o generate_descriptions(df[n].label, df[n])
generate_html_content_by_label(df, title) ==
    Format(get_html_template,
           <<<<ToString(Len(df))>>, RowsByLabel(df, Len(df)),
             DescriptionsByLabel(df, Len(df)), title>>)

\* generate_html_content(df, title)
generate_html_content(df, title) ==
    Format(get_html_template,
           <<<<ToString(Len(df))>>, Rows(df, Len(df)),
             Descriptions(df, Len(df)), title>>)


(***************************************************************************)
(* src/src/cli/scrape.py: the result exporter.                             *)
(***************************************************************************)

\* the columns of the DataFrame, in order (the label is the index)
Columns == <<"title", "company", "company_url", "location", "date_posted",
             "emails", "description", "min_amount", "is_remote">>

\* jobs["emails"].fillna("-")
fillna_emails(df) ==
    [k \in 1..Len(df) |->
        [df[k] EXCEPT !.emails = IF @.t = "nan" THEN S(<<"-">>) ELSE @]]

\* One cell as csv.writer emits it under QUOTE_NONNUMERIC: a field is quoted
\* unless it is a number (a bool is one); pandas hands a missing value over
\* as the text na_rep = "".
CsvCell(x) ==
    [quoted |-> x.t \notin {"num", "bool"},
     text |-> IF x.t = "nan" THEN <<>> ELSE x.v]
CsvHeader == [c \in 1..Len(Columns) |-> [quoted |-> TRUE, text |-> <<Columns[c]>>]]
CsvRow(row) == [c \in 1..Len(Columns) |-> CsvCell(row[Columns[c]])]

\* to_csv called without index=False: the index label leads every row
to_csv_with_index(df) ==
    [escapechar |-> "\\",
     rows |-> <<<<[quoted |-> TRUE, text |-> <<>>]>> \o CsvHeader>>
              \o [k \in 1..Len(df) |->
                    <<[quoted |-> FALSE, text |-> <<ToString(df[k].label)>>]>>
                    \o CsvRow(df[k])]]

\* jobs.to_csv(path, quoting=csv.QUOTE_NONNUMERIC, escapechar="\\", index=False)
to_csv(df) ==
    [escapechar |-> "\\",
     rows |-> <<CsvHeader>> \o [k \in 1..Len(df) |-> CsvRow(df[k])]]

NoCsv == [escapechar |-> "", rows |-> <<>>]

(***************************************************************************)
(* src/src/cli/scrape.py: the interactive session.                         *)
(***************************************************************************)

\* the names of jobspy.model.Site
SiteNames == {
    <<"L", "I", "N", "K", "E", "D", "I", "N">>,
    <<"I", "N", "D", "E", "E", "D">>,
    <<"Z", "I", "P", "_", "R", "E", "C", "R", "U", "I", "T", "E", "R">>,
    <<"G", "L", "A", "S", "S", "D", "O", "O", "R">>,
    <<"G", "O", "O", "G", "L", "E">>,
    <<"B", "A", "Y", "T">>,
    <<"N", "A", "U", "K", "R", "I">>,
    <<"B", "D", "J", "O", "B", "S">>}

DefaultPlatforms == <<"L", "i", "n", "k", "e", "d", "i", "n", ",", " ", "I", "n", "d", "e", "e", "d">>
DefaultQuery == <<"\"", "N", "e", "t", "s", "u", "i", "t", "e", "\"", " ", "c", "o", "n", "s", "u", "l", "t", "a", "n", "t", " ", "-", "o", "r", "a", "c", "l", "e">>
DefaultCount == <<"1", "0", "0", "0">>
DefaultHours == <<"2", "4">>
DefaultCountry == <<"U", "S", "A">>

\* EnumPrompt.process_response(value): the platforms, or the first token
\* that names no Site (typer.BadParameter)
process_response(value) ==
    LET names == Split(value, ",")
        bad == {i \in 1..Len(names) : Upper(Strip(names[i])) \notin SiteNames}
    IN IF bad = {}
       THEN [ok |-> TRUE,
             platforms |-> [i \in 1..Len(names) |-> Upper(Strip(names[i]))],
             invalid |-> <<>>]
       ELSE [ok |-> FALSE, platforms |-> <<>>,
             invalid |-> names[CHOOSE i \in bad : \A j \in bad : i <= j]]

\* EnumPrompt.ask(..., default="Linkedin, Indeed"): PromptBase returns the
\* default as it is when the line is empty, and process_response(value)
\* otherwise
EnumPrompt_ask(value) ==
    IF value = <<>>
    THEN [kind |-> "str", ok |-> TRUE, text |-> DefaultPlatforms,
          sites |-> <<>>, invalid |-> <<>>]
    ELSE LET r == process_response(value)
         IN [kind |-> "list", ok |-> r.ok, text |-> <<>>,
             sites |-> r.platforms, invalid |-> r.invalid]

\* Prompt.ask(..., default=d): the default when the line is empty, the
\* stripped line otherwise
Prompt_ask(value, default) == IF value = <<>> THEN default ELSE Strip(value)

Digits == <<"0", "1", "2", "3", "4", "5", "6", "7", "8", "9">>
IsDigit(c) == \E i \in 1..10 : Digits[i] = c
DigitValue(c) == (CHOOSE i \in 1..10 : Digits[i] = c) - 1
RECURSIVE DigitsValue(_)
DigitsValue(ds) ==
    IF ds = <<>> THEN 0
    ELSE 10 * DigitsValue(SubSeq(ds, 1, Len(ds) - 1)) + DigitValue(ds[Len(ds)])

\* int(text): surrounding whitespace, an optional sign, then digits;
\* anything else is a ValueError
PyInt(text) ==
    LET s == Strip(text)
        signed == s # <<>> /\ Head(s) \in {"-", "+"}
        ds == IF signed THEN Tail(s) ELSE s
    IN IF ds # <<>> /\ \A i \in 1..Len(ds) : IsDigit(ds[i])
       THEN [ok |-> TRUE,
             n |-> IF signed /\ Head(s) = "-" THEN 0 - DigitsValue(ds)
                   ELSE DigitsValue(ds)]
       ELSE [ok |-> FALSE, n |-> 0]

\* lines 119-128 with the range test written "< 0"
clamp_entries_off_by_one(num_entries) ==
    LET r == PyInt(num_entries)
    IN IF r.ok
       THEN IF r.n < 0 \/ r.n > 1000
            THEN [value |-> 1000, warned |-> 1]
            ELSE [value |-> r.n, warned |-> 0]
       ELSE [value |-> 1000, warned |-> 1]

\* lines 119-128: the try/except around int(num_entries) and the range test
clamp_entries(num_entries) ==
    LET r == PyInt(num_entries)
    IN IF r.ok
       THEN IF r.n < 1 \/ r.n > 1000
            THEN [value |-> 1000, warned |-> 1]
            ELSE [value |-> r.n, warned |-> 0]
       ELSE [value |-> 1000, warned |-> 1]

\* str(date.today()) for the clock's day: the run starts on 2025-12-31
IsoDate(d) == IF d = 0 THEN "2025-12-31" ELSE "2026-01-0" \o ToString(d)

Running == {"ask_platforms", "ask_query", "ask_count", "ask_hours",
            "ask_country", "dir_date", "file_date", "mkdir", "scrape_jobs",
            "fillna", "to_csv", "write_html", "goodbye"}


(***************************************************************************)
(* collect_user_inputs(): one action per prompt.                           *)
(***************************************************************************)

NoSites == [kind |-> "none", text |-> <<>>, sites |-> <<>>]

\* lines 100-104 and 33-44: the platform prompt
AskPlatforms ==
    /\ pc = "ask_platforms"
    /\ LET r == EnumPrompt_ask(stdin.platforms)
       IN IF r.ok
          THEN /\ site_name' = [kind |-> r.kind, text |-> r.text, sites |-> r.sites]
               /\ errors' = errors
               /\ pc' = "ask_query"
          ELSE /\ errors' = Append(errors, r.invalid)
               /\ site_name' = site_name
               /\ pc' = "usage_error"
    /\ UNCHANGED <<stdin, search_term, results_wanted, hours_old, country,
                   warnings, today, pathVars, jobs, csv_file, html_file, effects>>

\* lines 107-111: the search query prompt
AskQuery ==
    /\ pc = "ask_query"
    /\ search_term' = Prompt_ask(stdin.query, DefaultQuery)
    /\ pc' = "ask_count"
    /\ UNCHANGED <<stdin, site_name, results_wanted, hours_old, country,
                   warnings, errors, today, pathVars, jobs, csv_file,
                   html_file, effects>>

\* lines 114-128: the result-count prompt
AskCount ==
    /\ pc = "ask_count"
    /\ LET r == clamp_entries(Prompt_ask(stdin.count, DefaultCount))
       IN /\ results_wanted' = r.value
          /\ warnings' = warnings + r.warned
    /\ pc' = "ask_hours"
    /\ UNCHANGED <<stdin, site_name, search_term, hours_old, country, errors,
                   today, pathVars, jobs, csv_file, html_file, effects>>

\* lines 131-135: IntPrompt.ask returns the default as it is for an empty
\* line, the integer for a line int() accepts, and asks again otherwise
AskHours ==
    /\ pc = "ask_hours"
    /\ stdin.hours # <<>>
    /\ LET value == Head(stdin.hours)
           r == PyInt(value)
       IN /\ stdin' = [stdin EXCEPT !.hours = Tail(@)]
          /\ IF value = <<>>
             THEN /\ hours_old' = [kind |-> "str", text |-> DefaultHours, n |-> 0]
                  /\ pc' = "ask_country"
             ELSE IF r.ok
                  THEN /\ hours_old' = [kind |-> "int", text |-> <<>>, n |-> r.n]
                       /\ pc' = "ask_country"
                  ELSE /\ hours_old' = hours_old
                       /\ pc' = "ask_hours"
    /\ UNCHANGED <<site_name, search_term, results_wanted, country, warnings,
                   errors, today, pathVars, jobs, csv_file, html_file, effects>>

\* lines 138-149: the country prompt, and the return of the inputs
AskCountry ==
    /\ pc = "ask_country"
    /\ country' = Prompt_ask(stdin.country, DefaultCountry)
    /\ pc' = "dir_date"
    /\ UNCHANGED <<stdin, site_name, search_term, results_wanted, hours_old,
                   warnings, errors, today, pathVars, jobs, csv_file,
                   html_file, effects>>

(***************************************************************************)
(* scrape(): the path, the directory, the scraper and the export.          *)
(***************************************************************************)

\* midnight passes while the run is under way
Tick ==
    /\ pc \in Running
    /\ today < MaxDay
    /\ today' = today + 1
    /\ UNCHANGED <<pc, stdin, inputVars, pathVars, jobs, csv_file, html_file,
                   effects>>

\* line 174: the first date.today() of the f-string, the directory's
ReadDirDate ==
    /\ pc = "dir_date"
    /\ dir_date' = IsoDate(today)
    /\ pc' = "file_date"
    /\ UNCHANGED <<stdin, inputVars, today, file_date, dirs, jobs, csv_file,
                   html_file, effects>>

\* line 174: the second date.today() of the f-string, the file stem's
ReadFileDate ==
    /\ pc = "file_date"
    /\ file_date' = IsoDate(today)
    /\ pc' = "mkdir"
    /\ UNCHANGED <<stdin, inputVars, today, dir_date, dirs, jobs, csv_file,
                   html_file, effects>>

\* filename.parent and the two files' paths
OutputDir == <<"./data", dir_date>>
CsvPath == <<"./data", dir_date, "Jobs-" \o file_date \o ".csv">>
HtmlPath == <<"./data", dir_date, "Jobs-" \o file_date \o ".html">>

\* line 175: filename.parent.mkdir(parents=True, exist_ok=True)
Mkdir ==
    /\ pc = "mkdir"
    /\ dirs' = dirs \cup {<<"./data">>, OutputDir}
    /\ effects' = Append(effects, "mkdir")
    /\ pc' = "scrape_jobs"
    /\ UNCHANGED <<stdin, inputVars, today, dir_date, file_date, jobs,
                   csv_file, html_file>>

Job(label, title, description) ==
    [label |-> label, title |-> title, company |-> S(<<"A", "c", "m", "e">>),
     company_url |-> NaN, location |-> S(<<"R", "e", "m", "o", "t", "e">>),
     date_posted |-> S(<<"2", "0", "2", "4">>), emails |-> NaN,
     description |-> description, min_amount |-> NaN, is_remote |-> Bool(<<"T", "r", "u", "e">>)]

\* what the scraper may return to a run of the whole command
ScraperResults ==
    {<<>>, <<Job(0, S(<<"a">>), S(<<"d">>))>>,
     <<Job(0, S(<<"a">>), S(<<"d">>)), Job(0, S(<<"b">>), NaN)>>}

\* line 180: scrape_jobs returns a DataFrame
ScrapeJobs ==
    /\ pc = "scrape_jobs"
    /\ \E df \in ScraperResults : jobs' = df
    /\ effects' = Append(effects, "scrape_jobs returned")
    /\ pc' = "fillna"
    /\ UNCHANGED <<stdin, inputVars, today, pathVars, csv_file, html_file>>

\* a scraper failure caught and the run carried on with no jobs
ScraperRaisesCaught ==
    /\ pc = "scrape_jobs"
    /\ jobs' = <<>>
    /\ effects' = Append(effects, "scrape_jobs raised")
    /\ pc' = "fillna"
    /\ UNCHANGED <<stdin, inputVars, today, pathVars, csv_file, html_file>>

\* line 180: scrape_jobs raises; nothing catches it and the run ends
ScraperRaises ==
    /\ pc = "scrape_jobs"
    /\ effects' = Append(effects, "scrape_jobs raised")
    /\ pc' = "scraper_failed"
    /\ UNCHANGED <<stdin, inputVars, today, pathVars, jobs, csv_file, html_file>>

\* line 154 of save_results
SaveFillna ==
    /\ pc = "fillna"
    /\ jobs' = fillna_emails(jobs)
    /\ pc' = "to_csv"
    /\ UNCHANGED <<stdin, inputVars, today, pathVars, csv_file, html_file,
                   effects>>

\* lines 155-160 of save_results
SaveCsv ==
    /\ pc = "to_csv"
    /\ csv_file' = to_csv(jobs)
    /\ effects' = Append(effects, "csv")
    /\ pc' = "write_html"
    /\ UNCHANGED <<stdin, inputVars, today, pathVars, jobs, html_file>>

\* lines 162-164 of save_results
SaveHtml ==
    /\ pc = "write_html"
    /\ html_file' = generate_html_content(jobs, search_term)
    /\ effects' = Append(effects, "html")
    /\ pc' = "goodbye"
    /\ UNCHANGED <<stdin, inputVars, today, pathVars, jobs, csv_file>>

\* line 183: print_goodbye_message, and the command returns
Goodbye ==
    /\ pc = "goodbye"
    /\ pc' = "done"
    /\ UNCHANGED <<stdin, inputVars, today, pathVars, jobs, csv_file,
                   html_file, effects>>

(***************************************************************************)
(* The run of the whole command.                                           *)
(***************************************************************************)

\* lines typed at the platform prompt
PlatformLines ==
    {<<>>,
     <<"i", "n", "d", "e", "e", "d">>,
     <<"I", "n", "d", "e", "e", "d", ",", " ", "l", "i", "n", "k", "e", "d", "i", "n">>,
     <<" ", "B", "A", "Y", "T", " ", ",", "G", "o", "o", "g", "l", "e">>,
     <<"m", "o", "n", "s", "t", "e", "r">>,
     <<"i", "n", "d", "e", "e", "d", ",", "m", "o", "n", "s", "t", "e", "r">>,
     <<"d", "i", "c", "e", ",", " ", "i", "n", "d", "e", "e", "d", ",", " ", "m", "o", "n", "s", "t", "e", "r">>,
     <<"i", "n", "d", "e", "e", "d", ",">>,
     <<" ">>}

QueryLines == {<<>>, <<"q", " ">>}
CountLines == {<<>>, <<"0">>, <<"5">>, <<"1", "0", "0", "1">>, <<"a", "b", "c">>}
HoursLines == {<<<<>>>>, <<<<"4", "8">>>>, <<<<"x">>, <<>>>>}
CountryLines == {<<>>}

Stdins ==
    [platforms : PlatformLines, query : QueryLines, count : CountLines,
     hours : HoursLines, country : CountryLines]

InitRun(lines) ==
    /\ pc = "ask_platforms"
    /\ stdin \in lines
    /\ site_name = NoSites
    /\ search_term = <<>>
    /\ results_wanted = 0
    /\ hours_old = [kind |-> "none", text |-> <<>>, n |-> 0]
    /\ country = <<>>
    /\ warnings = 0
    /\ errors = <<>>
    /\ today = 0
    /\ dir_date = ""
    /\ file_date = ""
    /\ dirs = {}
    /\ jobs = <<>>
    /\ csv_file = NoCsv
    /\ html_file = <<>>
    /\ effects = <<>>

Init == InitRun(Stdins)

Next ==
    \/ AskPlatforms
    \/ AskQuery
    \/ AskCount
    \/ AskHours
    \/ AskCountry
    \/ Tick
    \/ ReadDirDate
    \/ ReadFileDate
    \/ Mkdir
    \/ ScrapeJobs
    \/ ScraperRaises
    \/ SaveFillna
    \/ SaveCsv
    \/ SaveHtml
    \/ Goodbye

Spec == Init /\ [][Next]_vars


(***************************************************************************)
(* collect_user_inputs() over every short line typed at the result-count   *)
(* prompt.                                                                 *)
(***************************************************************************)

CountAlphabet == {"0", "1", "-", " ", "a"}

StdinsCount ==
    [platforms : {<<>>, <<"i", "n", "d", "e", "e", "d">>, <<"m", "o", "n", "s", "t", "e", "r">>},
     query : {<<>>}, count : StrUpTo(CountAlphabet, MaxDigits),
     hours : {<<<<>>>>}, country : CountryLines]

InitInputs == InitRun(StdinsCount)

NextInputs ==
    \/ AskPlatforms
    \/ AskQuery
    \/ AskCount
    \/ AskHours
    \/ AskCountry

SpecInputs == InitInputs /\ [][NextInputs]_vars

(***************************************************************************)
(* save_results() over the result sets the scraper may have returned.      *)
(***************************************************************************)

JsAlphabet == {"\\", BACKTICK, "$", "{", "a"}
JsTitles ==
    {<<"a">>, <<BACKTICK>>, <<"\\", BACKTICK>>, <<"$", "{">>, <<"\\", "$", "{">>}
JsDescriptions ==
    {S(d) : d \in StrUpTo(JsAlphabet, MaxLen)}
    \cup {NaN, S(<<"<", "/", "s", "c", "r", "i", "p", "t", ">">>), S(<<"<", "/", "S", "C", "R", "I", "P", "T", " ", ">">>),
          S(<<"<", "b", ">", "x", "<", "/", "b", ">">>)}
JobsJs == {<<Job(0, S(t), d)>> : t \in JsTitles, d \in JsDescriptions}

HtmlTexts == {S(<<"a">>), S(<<"<", "b", ">">>), S(<<"\"", ">", "&">>)}
UrlValues ==
    {NaN, S(<<"-">>), S(<<"n", "a", "n">>), S(<<"h", ":", "/", "/", "x">>),
     S(<<"\"", ">", "<", "b", ">">>), S(<<"<">>)}
JobsRow ==
    {<<[Job(0, t, S(<<"d">>)) EXCEPT !.company = c, !.company_url = u,
                                      !.location = l, !.date_posted = dp,
                                      !.emails = e]>> :
        t \in HtmlTexts, c \in HtmlTexts \cup {S(<<"-">>)}, u \in UrlValues,
        l \in {S(<<"R">>), S(<<"<", ">">>)},
        dp \in {S(<<"2", "0", "2", "4">>), NaN},
        e \in {NaN, S(<<"-">>), S(<<"<", "a", "@", "b", ">">>)}}

ReportRecords ==
    {Job(l, S(<<t>>), S(<<"d">>)) : l \in 0..MaxLabel, t \in {"a", "b"}}
JobsReport == StrUpTo(ReportRecords, MaxRows)

CsvRecords ==
    {[Job(0, t, S(<<"d">>)) EXCEPT !.emails = e, !.min_amount = m,
                                    !.is_remote = r] :
        t \in {S(<<"a">>), S(<<"1">>)},
        e \in {NaN, S(<<"-">>), S(<<"a", "@", "b">>)},
        m \in {NaN, Num(<<"5", ".", "0">>)},
        r \in {NaN, Bool(<<"T", "r", "u", "e">>)}}
JobsCsv == StrUpTo(CsvRecords, MaxCsvRows)

\* the state of a run when scrape_jobs has just returned
InitSave ==
    /\ pc = "fillna"
    /\ stdin = [platforms |-> <<"i", "n", "d", "e", "e", "d">>, query |-> <<"q">>,
                count |-> <<>>, hours |-> <<>>, country |-> <<>>]
    /\ site_name = [kind |-> "list", text |-> <<>>,
                    sites |-> <<<<"I", "N", "D", "E", "E", "D">>>>]
    /\ search_term = <<"q">>
    /\ results_wanted = 1000
    /\ hours_old = [kind |-> "str", text |-> DefaultHours, n |-> 0]
    /\ country = DefaultCountry
    /\ warnings = 0
    /\ errors = <<>>
    /\ today = 0
    /\ dir_date = IsoDate(0)
    /\ file_date = IsoDate(0)
    /\ dirs = {<<"./data">>, <<"./data", IsoDate(0)>>}
    /\ jobs \in JobsJs \cup JobsRow \cup JobsReport \cup JobsCsv
    /\ csv_file = NoCsv
    /\ html_file = <<>>
    /\ effects = <<"mkdir", "scrape_jobs returned">>

NextSave ==
    \/ SaveFillna
    \/ SaveCsv
    \/ SaveHtml
    \/ Goodbye

SpecSave == InitSave /\ [][NextSave]_vars


(***************************************************************************)
(* Reading the written report back.                                        *)
(***************************************************************************)

Exported == pc \in {"goodbye", "done"}

\* the elements of s strictly between positions a and b
Between(s, a, b) == SubSeq(s, a + 1, b - 1)

RowOpens == Positions(html_file, ROW_OPEN)
RowCloses == Positions(html_file, ROW_CLOSE)
ButtonOpens == Positions(html_file, BUTTON_OPEN)
EntryOpens == Positions(html_file, ENTRY_OPEN)
EntryMids == Positions(html_file, ENTRY_MID)
EntryCloses == Positions(html_file, ENTRY_CLOSE)

\* the text between the backticks of the k-th map entry
TitleText(k) == Between(html_file, EntryOpens[k], EntryMids[k])
DescText(k) == Between(html_file, EntryMids[k], EntryCloses[k])

\* the cells of the k-th table row, split at the cell separators
RowCells(k) ==
    LET seps == SelectSeq(Positions(html_file, CELL_SEP),
                          LAMBDA p : RowOpens[k] < p /\ p < ButtonOpens[k])
        cuts == seps \o <<ButtonOpens[k]>>
    IN [c \in 1..(Len(cuts) - 1) |-> Between(html_file, cuts[c], cuts[c + 1])]
TitleCell(k) == RowCells(k)[1]
CompanyCell(k) == RowCells(k)[2]

\* A JavaScript template literal read from the character after its opening
\* backtick: a backslash takes the next character as it is, an unescaped
\* backtick or "${" ends the text early.
RECURSIVE JsRead(_)
JsRead(t) ==
    IF t = <<>> THEN [ok |-> TRUE, text |-> <<>>]
    ELSE IF Head(t) = "\\"
         THEN IF Len(t) = 1 THEN [ok |-> FALSE, text |-> <<>>]
              ELSE LET r == JsRead(SubSeq(t, 3, Len(t)))
                   IN [ok |-> r.ok, text |-> <<t[2]>> \o r.text]
    ELSE IF Head(t) = BACKTICK THEN [ok |-> FALSE, text |-> <<>>]
    ELSE IF Len(t) >= 2 /\ t[1] = "$" /\ t[2] = "{" THEN [ok |-> FALSE, text |-> <<>>]
    ELSE LET r == JsRead(Tail(t))
         IN [ok |-> r.ok, text |-> <<Head(t)>> \o r.text]

\* An HTML script element's text ends at the first "</script" (in any case)
\* followed by ">", "/" or white space.
ScriptCloseAt(p) ==
    \/ html_file[p] = SCRIPT_CLOSE
    \/ /\ p + 8 <= Len(html_file)
       /\ [i \in 1..8 |-> LowerChar(html_file[p + i - 1])]
              = <<"<", "/", "s", "c", "r", "i", "p", "t">>
       /\ html_file[p + 8] \in {">", "/"} \cup Whitespace
ScriptStart == Positions(html_file, SCRIPT_OPEN)[1]
ScriptEnd ==
    CHOOSE p \in (ScriptStart + 1)..Len(html_file) :
        /\ ScriptCloseAt(p)
        /\ \A q \in (ScriptStart + 1)..(p - 1) : ~ScriptCloseAt(q)

(***************************************************************************)
(* The claims.                                                             *)
(***************************************************************************)

\* C1: in the written report, the text between the backticks of every map
\* entry, read by the template-literal rules, holds no unescaped backtick
\* and no unescaped "${" and decodes to the record's title, respectively
\* description, exactly.
C1_EscapingRoundTrips ==
    Exported =>
        /\ Len(EntryOpens) = Len(jobs)
        /\ \A k \in 1..Len(jobs) :
              /\ JsRead(TitleText(k)) = [ok |-> TRUE, text |-> PyStr(jobs[k].title)]
              /\ JsRead(DescText(k)) =
                     [ok |-> TRUE, text |-> PyStr(jobs[k].description)]

\* a report was written for a description made of a backslash and "${"
C1_Witness ==
    /\ pc = "done"
    /\ Len(jobs) = 1
    /\ jobs[1].description = S(<<"\\", "$", "{">>)
    /\ jobs[1].title = S(<<"\\", BACKTICK>>)
    /\ DescText(1) = <<"\\", "\\", "\\", "$", "{">>

\* C2: in the written report no "<" or ">" of a table row comes from a
\* field value, and no field value closes the href attribute.
C2_NoFieldBreaksOut ==
    Exported =>
        \A k \in 1..Len(RowOpens) :
            /\ \A p \in RowOpens[k]..RowCloses[k] : html_file[p] \notin {"<", ">"}
            /\ \A a \in RowOpens[k]..RowCloses[k] :
                  html_file[a] = A_OPEN =>
                      LET close == CHOOSE q \in a..RowCloses[k] :
                                       /\ html_file[q] = A_ATTRS
                                       /\ \A x \in a..(q - 1) : html_file[x] # A_ATTRS
                      IN \A p \in a..close : html_file[p] # "\""

\* C3: in the written report every map entry is a well-formed pair of
\* template literals and the script element ends at the template's own
\* closing tag, after the map and the four functions and handlers.
C3_ScriptIntact ==
    Exported =>
        /\ \A k \in 1..Len(EntryOpens) :
              JsRead(TitleText(k)).ok /\ JsRead(DescText(k)).ok
        /\ html_file[ScriptEnd] = SCRIPT_CLOSE
        /\ \A h \in {MAP_CLOSE, SHOW_MODAL, CLOSE_MODAL, ON_CLICK, ON_ESCAPE} :
              \E p \in ScriptStart..ScriptEnd : html_file[p] = h

\* C4: the company cell is the escaped company name, with no anchor, when
\* str(company_url) is "nan" or "-", and otherwise one anchor whose href is
\* that value and whose text is the escaped company name.
C4_CompanyCell ==
    Exported =>
        \A k \in 1..Len(jobs) :
            LET url == PyStr(jobs[k].company_url)
                name == format_content(jobs[k].company)
            IN IF url \in {<<"n", "a", "n">>, <<"-">>}
               THEN CompanyCell(k) = name
               ELSE CompanyCell(k) = <<A_OPEN>> \o url \o <<A_ATTRS>> \o name \o <<A_CLOSE>>

\* C5: the written report has one row and one map entry per record, in the
\* order of the result set; "Total Leads" shows the number of records; the
\* record at zero-based position i has row number i+1, showModal argument i
\* and map key i, whatever its index label.
C5_ReportMirrorsResultSet ==
    Exported =>
        LET n == Len(jobs)
        IN /\ Len(RowOpens) = n
           /\ Len(RowCloses) = n
           /\ Len(ButtonOpens) = n
           /\ Len(EntryOpens) = n
           /\ html_file[Positions(html_file, TOTAL_LEADS)[1] + 1] = ToString(n)
           /\ \A k \in 1..n :
                 /\ html_file[RowOpens[k] + 1] = ToString(k)
                 /\ html_file[ButtonOpens[k] + 1] = ToString(k - 1)
                 /\ html_file[EntryOpens[k] - 1] = ToString(k - 1)
                 /\ TitleCell(k) = format_content(jobs[k].title)
                 /\ JsRead(TitleText(k)).text = PyStr(jobs[k].title)
                 /\ RowOpens[k] < ButtonOpens[k] /\ ButtonOpens[k] < RowCloses[k]
                 /\ k < n => RowCloses[k] < RowOpens[k + 1]

\* a report was written for records whose index labels are not their positions
C5_Witness ==
    /\ pc = "done"
    /\ Len(jobs) >= 2
    /\ jobs[1].label = 2
    /\ jobs[2].label = 2
    /\ html_file[ButtonOpens[2] + 1] = "1"

\* the effective line of the result-count prompt
CountText == IF stdin.count = <<>> THEN DefaultCount ELSE stdin.count
CountAnswered == pc \in {"ask_hours", "ask_country", "dir_date"}

\* C6: once the result-count prompt is answered, results_wanted is in
\* 1..1000; it is the number typed, with no warning, when the line is an
\* integer in 1..1000, and 1000 with one warning otherwise.
C6_CountClamped ==
    CountAnswered =>
        LET r == PyInt(CountText)
        IN /\ results_wanted \in 1..1000
           /\ IF r.ok /\ 1 <= r.n /\ r.n <= 1000
              THEN results_wanted = r.n /\ warnings = 0
              ELSE results_wanted = 1000 /\ warnings = 1

\* "0" was typed at the result-count prompt
C6_Witness ==
    /\ pc = "ask_hours"
    /\ stdin.count = <<"0">>
    /\ results_wanted = 1000
    /\ warnings = 1

CsvWritten == pc \in {"write_html", "goodbye", "done"}

\* C7 as stated: every cell of the written CSV is quoted.
C7_EveryFieldQuoted ==
    CsvWritten =>
        \A r \in 1..Len(csv_file.rows) :
            \A c \in 1..Len(csv_file.rows[r]) : csv_file.rows[r][c].quoted

\* C7, amended: the written CSV has a header row and one row per record in
\* the order of the result set, no index column and backslash as escape
\* character; the header and every text or missing value are quoted, every
\* numeric or boolean value is not.
C7_NonNumericQuoted ==
    CsvWritten =>
        /\ csv_file.escapechar = "\\"
        /\ Len(csv_file.rows) = Len(jobs) + 1
        /\ \A r \in 1..Len(csv_file.rows) : Len(csv_file.rows[r]) = Len(Columns)
        /\ \A c \in 1..Len(Columns) :
              csv_file.rows[1][c] = [quoted |-> TRUE, text |-> <<Columns[c]>>]
        /\ \A k \in 1..Len(jobs) : \A c \in 1..Len(Columns) :
              LET x == jobs[k][Columns[c]]
                  cell == csv_file.rows[k + 1][c]
              IN /\ cell.quoted = (x.t \in {"str", "nan"})
                 /\ cell.text = IF x.t = "nan" THEN <<>> ELSE x.v

\* a CSV was written for a record with a number, a boolean and no email
C7_Witness ==
    /\ pc = "done"
    /\ Len(jobs) = 2
    /\ jobs[2].min_amount.t = "num"
    /\ jobs[2].is_remote.t = "bool"
    /\ csv_file.rows[3][6] = [quoted |-> TRUE, text |-> <<"-">>]
    /\ ~csv_file.rows[3][8].quoted

\* the effective line of the platform prompt and its tokens
PlatformText == IF stdin.platforms = <<>> THEN DefaultPlatforms ELSE stdin.platforms
PlatformTokens == Split(PlatformText, ",")
PlatformNames == [i \in 1..Len(PlatformTokens) |-> Upper(Strip(PlatformTokens[i]))]
InvalidTokens == {i \in 1..Len(PlatformTokens) : PlatformNames[i] \notin SiteNames}

\* C8: once the platform prompt is answered, either every token names a
\* site and site_name is the list of those sites in input order, or the
\* first invalid token was reported and the run ended there with nothing
\* else done.
C8_AllOrNothing ==
    pc # "ask_platforms" =>
        IF InvalidTokens = {}
        THEN site_name.kind = "list" /\ site_name.sites = PlatformNames
        ELSE /\ pc = "usage_error"
             /\ errors = <<PlatformTokens[CHOOSE i \in InvalidTokens :
                                              \A j \in InvalidTokens : i <= j]>>
             /\ site_name = NoSites
             /\ search_term = <<>> /\ results_wanted = 0 /\ country = <<>>
             /\ dirs = {} /\ effects = <<>>

\* the effects that come before the i-th
Before(i) == {effects[j] : j \in 1..(i - 1)}

\* C9: each file is written after the directory was created and after the
\* scraper returned, the CSV before the HTML; when the scraper raises the
\* run ends with neither file written.
C9_ExportOrdering ==
    /\ \A i \in 1..Len(effects) :
          /\ effects[i] \in {"csv", "html"} =>
                 {"mkdir", "scrape_jobs returned"} \subseteq Before(i)
          /\ effects[i] = "html" => "csv" \in Before(i)
          /\ effects[i] = "csv" => "html" \notin Before(i)
    /\ (\E i \in 1..Len(effects) : effects[i] = "scrape_jobs raised") =>
          /\ pc = "scraper_failed"
          /\ \A i \in 1..Len(effects) : effects[i] \notin {"csv", "html"}
          /\ csv_file = NoCsv /\ html_file = <<>>
    /\ (\E i \in 1..Len(effects) : effects[i] = "mkdir") => OutputDir \in dirs

\* a run wrote both files
C9_Witness ==
    /\ pc = "done"
    /\ effects = <<"mkdir", "scrape_jobs returned", "csv", "html">>
    /\ Len(jobs) = 2

\* C10: once the path is built, the directory name and the file stem carry
\* the same date.
C10_OneDate ==
    pc \in {"mkdir", "scrape_jobs", "scraper_failed", "fillna", "to_csv",
            "write_html", "goodbye", "done"} => dir_date = file_date

=============================================================================
